---- MODULE Spec2Model ----
(***************************************************************************)
(* Price ingestion and forecast pipeline of stock_forecast:                *)
(*   app/api/router_import.py   (run_yfinance_import, upload_bhav_file)    *)
(*   app/api/router_forecast.py (run_forecast and its engine)              *)
(* The MySQL store is modelled as the committed database `db` and the      *)
(* working view `tx` of the one open connection (autocommit = False, see   *)
(* dependencies.py): statements change tx, commit copies tx to db,         *)
(* rollback copies db to tx, and closing a connection discards tx.         *)
(* Requests are served one at a time (spec section 5).                     *)
(* Spec runs the three handlers from an empty store; ForecastSpec runs     *)
(* run_forecast over stores that earlier imports have filled; EngineSpec   *)
(* applies _compute_forecast_from_prices to series of bars.                *)
(***************************************************************************)
EXTENDS Integers, Sequences, FiniteSets, TLC

\* ------------------------------------------------------------------ bounds
\* Calendar dates are the ordinals 1..MaxDate; MaxDate stands for date.max,
\* the last date Python's datetime.date can hold.
MaxDate == 7
\* Largest number of rows read from one uploaded file.
MaxRows == 2
\* Largest number of rows in one downloaded frame.
MaxDfRows == 1
\* Number of requests served in one behaviour.
MaxRequests == 2
\* Longest series of bars handed to the engine when it is called on its own.
MaxBars == 6

\* _fetch_recent_prices(limit_days = 60)
LimitDays == 60

Dates == 1..MaxDate

\* ---------------------------------------------------------------- universe
\* The instrument registry (tables universe/exchange), read-only here.
\* Listed in the order of "ORDER BY e.code, u.symbol".
Universe ==
    << [id |-> 1, bse_code |-> "500001", yfinance_ticker |-> "AAA.BO", is_active |-> TRUE],
       [id |-> 2, bse_code |-> " 500002", yfinance_ticker |-> "BBB.BO", is_active |-> TRUE],
       [id |-> 3, bse_code |-> "500003", yfinance_ticker |-> "", is_active |-> FALSE] >>

\* ------------------------------------------------------------ conversions
\* str.strip() on the code alphabet of the model.
Strip(s) ==
    CASE s = " 500002" -> "500002"
      [] s = "500001 " -> "500001"
      [] OTHER -> s

\* A float is [kind |-> "fin", v |-> tenths] or the non-finite "nan"/"inf";
\* a failed conversion is [kind |-> "exc", exc |-> name of the exception].
Fin(v) == [kind |-> "fin", v |-> v]

\* float(x or 0) of the file-feed cells: the empty cell is falsy and gives 0.
FloatOrZero(tok) ==
    CASE tok = "" -> Fin(0)
      [] tok = "0" -> Fin(0)
      [] tok = "10" -> Fin(100)
      [] tok = "10.5" -> Fin(105)
      [] tok = "12" -> Fin(120)
      [] tok = "7.9" -> Fin(79)
      [] tok = "-5" -> Fin(-50)
      [] tok = "nan" -> [kind |-> "nan"]
      [] tok = "inf" -> [kind |-> "inf"]
      [] OTHER -> [kind |-> "exc", exc |-> "ValueError"]

\* int(f): truncation toward zero; int(nan) and int(inf) raise.
IntOf(f) ==
    CASE f.kind = "fin" ->
            [kind |-> "int", v |-> IF f.v >= 0 THEN f.v \div 10 ELSE -((-f.v) \div 10)]
      [] f.kind = "nan" -> [kind |-> "exc", exc |-> "ValueError"]
      [] f.kind = "inf" -> [kind |-> "exc", exc |-> "OverflowError"]
      [] OTHER -> f

\* date.fromisoformat on the date strings of the model.
DateFromIso(s) ==
    CASE s = "0001-01-01" -> [kind |-> "date", d |-> 1]
      [] s = "9999-12-31" -> [kind |-> "date", d |-> MaxDate]
      [] OTHER -> [kind |-> "exc", exc |-> "ValueError"]

DateStrings == {"0001-01-01", "9999-12-31", "31/12/2020"}

\* ------------------------------------------------------------ price store
SameKey(r, universe_id, trade_date) ==
    r.universe_id = universe_id /\ r.trade_date = trade_date

Bar(universe_id, trade_date, open_p, high_p, low_p, close_p, volume, source) ==
    [universe_id |-> universe_id, trade_date |-> trade_date, open |-> open_p,
     high |-> high_p, low |-> low_p, close |-> close_p, volume |-> volume,
     source |-> source]

\* A plain INSERT: what the statement would do without its ON DUPLICATE KEY
\* UPDATE clause on a table without the unique key.
InsertPriceOnly(price_history, bar) == price_history \cup {bar}

\* INSERT INTO price_history ... ON DUPLICATE KEY UPDATE open, high, low,
\* close, volume, source: the row of the key is replaced by the new values.
InsertOrUpdatePrice(price_history, bar) ==
    {r \in price_history : ~SameKey(r, bar.universe_id, bar.trade_date)} \cup {bar}

\* ------------------------------------------------------------------ state
VARIABLES
    db,         \* committed tables: price_history, bhav_upload, forecast_run, forecast_result
    tx,         \* the tables as the open connection sees them (db plus its own writes)
    auto_inc,   \* AUTO_INCREMENT counters of bhav_upload and forecast_run
    conn,       \* the request's connection: "none", "open" or "closed"
    pc,         \* position of the request being served, "idle" between requests
    nreq,       \* requests served so far
    bhav,       \* locals of upload_bhav_file
    fc,         \* locals of run_forecast
    yf,         \* locals of run_yfinance_import
    resp,       \* what the last request returned
    consumed,   \* history: the rows the csv reader has yielded to the current upload
    rowFaults,  \* history: the rows whose upsert the store refused (file row index,
                \* or <<instrument index, frame row index>> in the bulk adapter)
    upserts,    \* history: the bars upserted through the current connection, in order
    before,     \* history: the committed tables when the current request began
    eng         \* the engine called on its own: its input series and what it returned

vars == <<db, tx, auto_inc, conn, pc, nreq, bhav, fc, yf, resp, consumed, rowFaults,
          upserts, before, eng>>

\* SQL NULL / Python None, and a present value.
Null == <<>>
Some(v) == <<v>>

EmptyTables ==
    [price_history |-> {}, bhav_upload |-> {}, forecast_run |-> {}, forecast_result |-> {}]

NoFrame == [handler |-> "none"]

\* The exception mysql.connector raises when the store cannot execute a statement.
StorageFault == "mysql.connector.Error"

Init ==
    /\ db = EmptyTables
    /\ tx = EmptyTables
    /\ auto_inc = [bhav_upload |-> 0, forecast_run |-> 0]
    /\ conn = "none"
    /\ pc = "idle"
    /\ nreq = 0
    /\ bhav = NoFrame
    /\ fc = NoFrame
    /\ yf = NoFrame
    /\ resp = "none"
    /\ consumed = <<>>
    /\ rowFaults = {}
    /\ upserts = <<>>
    /\ before = EmptyTables
    /\ eng = NoFrame

\* FastAPI resolves Depends(get_db_connection): a fresh connection whose
\* transaction sees the committed tables.
NewRequest ==
    /\ pc = "idle"
    /\ nreq < MaxRequests
    /\ nreq' = nreq + 1
    /\ conn' = "open"
    /\ consumed' = <<>>
    /\ rowFaults' = {}
    /\ upserts' = <<>>
    /\ before' = db
    /\ UNCHANGED eng

\* ------------------------------------------------------- file-feed adapter
FileName == "bhav.csv"

\* INSERT INTO bhav_upload (file_name, trade_date, status) VALUES (.., .., 'PENDING')
CreateBhavUploadRow(tables, id, file_name, trade_date) ==
    [tables EXCEPT !.bhav_upload = @ \cup
        {[id |-> id, file_name |-> file_name, trade_date |-> trade_date,
          status |-> "PENDING", records_total |-> Null, records_loaded |-> Null,
          error_message |-> Null]}]

\* UPDATE bhav_upload SET status, records_total, records_loaded, error_message WHERE id
UpdateBhavUploadRow(tables, upload_id, status, records_total, records_loaded, error_message) ==
    [tables EXCEPT !.bhav_upload =
        {IF r.id = upload_id
            THEN [r EXCEPT !.status = status,
                           !.records_total = Some(records_total),
                           !.records_loaded = Some(records_loaded),
                           !.error_message = error_message]
            ELSE r : r \in @}]

\* The mapping without the is_active = 1 condition of the query.
FetchUniverseBseMapAll ==
    LET rows == {Universe[i] : i \in {j \in DOMAIN Universe : Universe[j].bse_code # ""}}
    IN  [c \in {Strip(r.bse_code) : r \in rows} |->
            (CHOOSE r \in rows : Strip(r.bse_code) = c).id]

\* Mapping FinInstrmId (bse_code) -> universe_id for the active universe.
FetchUniverseBseMap ==
    LET rows == {Universe[i] : i \in {j \in DOMAIN Universe :
                    Universe[j].is_active /\ Universe[j].bse_code # ""}}
    IN  [c \in {Strip(r.bse_code) : r \in rows} |->
            (CHOOSE r \in rows : Strip(r.bse_code) = c).id]

\* The rows a file may hold (csv.DictReader yields one mapping per line).
FileRow(fin, opn, hig, low, cls, vol) ==
    [FinInstrmId |-> fin, OpnPric |-> opn, HghPric |-> hig, LwPric |-> low,
     ClsPric |-> cls, TtlTradgVol |-> vol]

FileRows ==
    { FileRow("500001 ", "10", "12", "10", "10.5", "7.9"),
      FileRow("500001", "12", "12", "", "12", "-5"),
      FileRow("500001", "10", "abc", "10", "10", "7.9"),
      FileRow(" 500002", "10", "10", "10", "10", "nan"),
      FileRow("500003", "10", "10", "10", "10", "0") }

\* The conversions with a cell that does not convert read as 0.
ParseBhavRowLenient(row) ==
    LET val(f) == IF f.kind = "fin" THEN f.v ELSE 0
        vol == IntOf(FloatOrZero(row.TtlTradgVol))
    IN  [kind |-> "ok", opn |-> val(FloatOrZero(row.OpnPric)),
         hig |-> val(FloatOrZero(row.HghPric)), low |-> val(FloatOrZero(row.LwPric)),
         cls |-> val(FloatOrZero(row.ClsPric)),
         vol |-> IF vol.kind = "int" THEN vol.v ELSE 0]

\* Lines 314-318: the five conversions in order; the first that fails decides.
ParseBhavRow(row) ==
    LET opn == FloatOrZero(row.OpnPric)
        hig == FloatOrZero(row.HghPric)
        low == FloatOrZero(row.LwPric)
        cls == FloatOrZero(row.ClsPric)
        vol == IntOf(FloatOrZero(row.TtlTradgVol))
    IN  CASE opn.kind = "exc" -> opn
          [] hig.kind = "exc" -> hig
          [] low.kind = "exc" -> low
          [] cls.kind = "exc" -> cls
          [] vol.kind = "exc" -> vol
          [] OTHER -> [kind |-> "ok", opn |-> opn.v, hig |-> hig.v, low |-> low.v,
                       cls |-> cls.v, vol |-> vol.v]

RowError(row, exc) == <<"Row error", row.FinInstrmId, exc>>

\* Lines 274-291: parse the date, create the upload row.
UploadBhavBegin(trade_date) ==
    /\ NewRequest
    /\ fc' = NoFrame
    /\ yf' = NoFrame
    /\ LET t == DateFromIso(trade_date)
       IN  IF t.kind = "exc"
           THEN \* return at line 279: the connection is neither used nor closed
                /\ tx' = db
                /\ bhav' = [handler |-> "upload_bhav_file",
                            messages |-> <<"Invalid trade date. Use YYYY-MM-DD.">>]
                /\ resp' = "import_log"
                /\ pc' = "idle"
                /\ UNCHANGED <<db, auto_inc>>
           ELSE \/ /\ auto_inc' = [auto_inc EXCEPT !.bhav_upload = @ + 1]
                   /\ tx' = CreateBhavUploadRow(db, auto_inc.bhav_upload + 1, FileName, t.d)
                   /\ bhav' = [handler |-> "upload_bhav_file", tdate |-> t.d,
                               upload_id |-> auto_inc.bhav_upload + 1,
                               total |-> 0, loaded |-> 0, error_msg |-> Null,
                               status |-> Null, exc |-> Null, messages |-> <<>>,
                               bse_map |-> <<>>]
                   /\ resp' = "none"
                   /\ pc' = "bhav_map"
                   /\ UNCHANGED db
                \/ \* _create_bhav_upload_row raises outside any try: the
                   \* exception leaves the handler, nothing is closed
                   /\ tx' = db
                   /\ bhav' = [handler |-> "upload_bhav_file", tdate |-> t.d,
                               exc |-> Some(StorageFault)]
                   /\ resp' = "exception"
                   /\ pc' = "idle"
                   /\ UNCHANGED <<db, auto_inc>>

\* Lines 293-299: load the resolution mapping, wrap the stream.
UploadBhavFetchMap ==
    /\ pc = "bhav_map"
    /\ \/ /\ bhav' = [bhav EXCEPT !.bse_map = FetchUniverseBseMap]
          /\ pc' = "bhav_loop"
       \/ /\ bhav' = [bhav EXCEPT !.exc = Some(StorageFault)]
          /\ pc' = "bhav_except"
    /\ UNCHANGED <<db, tx, auto_inc, conn, nreq, fc, yf, resp, consumed, rowFaults, upserts, before, eng>>

\* Lines 301-334: one iteration of the row loop on the next row of the file.
\* storeOk says whether the store executes the upsert or raises.
UploadBhavRow(row, storeOk) ==
    /\ pc = "bhav_loop"
    /\ Len(consumed) < MaxRows
    /\ consumed' = Append(consumed, row)
    /\ LET fin_id == Strip(row.FinInstrmId)
           universe_id == IF fin_id \in DOMAIN bhav.bse_map THEN bhav.bse_map[fin_id] ELSE 0
           p == ParseBhavRow(row)
           counted == [bhav EXCEPT !.total = @ + 1]
       IN  IF fin_id = "" \/ universe_id = 0
           THEN \* continue: empty code, or stock not in universe
                /\ storeOk
                /\ bhav' = counted
                /\ UNCHANGED <<tx, rowFaults, upserts>>
           ELSE IF p.kind = "exc"
           THEN /\ storeOk
                /\ bhav' = [counted EXCEPT !.messages = Append(@, RowError(row, p.exc))]
                /\ UNCHANGED <<tx, rowFaults, upserts>>
           ELSE LET bar == Bar(universe_id, bhav.tdate, p.opn, p.hig, p.low, p.cls,
                               p.vol, "BSE_BHAV")
                IN  IF storeOk
                    THEN /\ tx' = [tx EXCEPT !.price_history = InsertOrUpdatePrice(@, bar)]
                         /\ upserts' = Append(upserts, bar)
                         /\ bhav' = [counted EXCEPT !.loaded = @ + 1]
                         /\ UNCHANGED rowFaults
                    ELSE \* the exception of the upsert is caught at line 332
                         /\ rowFaults' = rowFaults \cup {Len(consumed) + 1}
                         /\ bhav' = [counted EXCEPT
                                        !.messages = Append(@, RowError(row, StorageFault))]
                         /\ UNCHANGED <<tx, upserts>>
    /\ UNCHANGED <<db, auto_inc, conn, pc, nreq, fc, yf, resp, before, eng>>

\* The file stream fails while the reader fetches the next row (line 301):
\* the exception is outside the row's try and reaches line 338.
UploadBhavStreamError ==
    /\ pc = "bhav_loop"
    /\ bhav' = [bhav EXCEPT !.exc = Some("UnicodeDecodeError")]
    /\ pc' = "bhav_except"
    /\ UNCHANGED <<db, tx, auto_inc, conn, nreq, fc, yf, resp, consumed, rowFaults, upserts, before, eng>>

\* Lines 336-337: the reader is exhausted; commit and set the status.
UploadBhavCommit ==
    /\ pc = "bhav_loop"
    /\ db' = tx
    /\ bhav' = [bhav EXCEPT !.status = Some("SUCCESS")]
    /\ pc' = "bhav_update"
    /\ UNCHANGED <<tx, auto_inc, conn, nreq, fc, yf, resp, consumed, rowFaults, upserts, before, eng>>

\* A handler that commits what the connection holds instead of rolling back.
UploadBhavExceptCommit ==
    /\ pc = "bhav_except"
    /\ db' = tx
    /\ bhav' = [bhav EXCEPT !.status = Some("FAILED"), !.error_msg = bhav.exc]
    /\ pc' = "bhav_update"
    /\ UNCHANGED <<tx, auto_inc, conn, nreq, fc, yf, resp, consumed, rowFaults, upserts, before, eng>>

\* Lines 338-341: the adapter-level handler.
UploadBhavExcept ==
    /\ pc = "bhav_except"
    /\ tx' = db
    /\ bhav' = [bhav EXCEPT !.status = Some("FAILED"), !.error_msg = bhav.exc]
    /\ pc' = "bhav_update"
    /\ UNCHANGED <<db, auto_inc, conn, nreq, fc, yf, resp, consumed, rowFaults, upserts, before, eng>>

\* Lines 343-356: write the outcome into the upload row, close, respond.
\* Closing the connection ends its transaction without a commit.
UploadBhavUpdate ==
    /\ pc = "bhav_update"
    /\ tx' = UpdateBhavUploadRow(tx, bhav.upload_id, bhav.status[1], bhav.total,
                                 bhav.loaded, bhav.error_msg)
    /\ conn' = "closed"
    /\ bhav' = [bhav EXCEPT !.messages =
                    <<<<"Bhav upload status", bhav.status[1], bhav.total, bhav.loaded>>>>
                    \o @ \o (IF bhav.error_msg # Null
                                THEN <<<<"Error", bhav.error_msg[1]>>>> ELSE <<>>)]
    /\ resp' = "import_log"
    /\ pc' = "idle"
    /\ UNCHANGED <<db, auto_inc, nreq, fc, yf, consumed, rowFaults, upserts, before, eng>>

UploadBhavFile ==
    \/ \E trade_date \in DateStrings : UploadBhavBegin(trade_date)
    \/ UploadBhavFetchMap
    \/ \E row \in FileRows, storeOk \in BOOLEAN : UploadBhavRow(row, storeOk)
    \/ UploadBhavStreamError
    \/ UploadBhavCommit
    \/ UploadBhavExcept
    \/ UploadBhavUpdate

\* ---------------------------------------------------- bulk-download adapter
\* SELECT ... FROM universe WHERE is_active = 1 AND yfinance_ticker <> ''
FetchUniverseYfinance ==
    SelectSeq(Universe, LAMBDA u : u.is_active /\ u.yfinance_ticker # "")

\* float(x) of a frame cell: a number converts, None does not.
FloatOfCell(x) ==
    IF x.kind = "none" THEN [kind |-> "exc", exc |-> "TypeError"] ELSE x

\* Line 144: int(Volume) unless Volume is NaN (Volume != Volume), then 0.
VolumeOfCell(x) ==
    IF x.kind = "nan" THEN [kind |-> "int", v |-> 0]
    ELSE IF x.kind = "none" THEN [kind |-> "exc", exc |-> "TypeError"]
    ELSE IntOf(x)

\* The records a downloaded frame may hold for one day: one whose cells all
\* convert, and one whose High is None.
DfRecords ==
    { [Open |-> Fin(105), High |-> Fin(120), Low |-> Fin(100), Close |-> Fin(120),
       Volume |-> Fin(30)],
      [Open |-> Fin(100), High |-> [kind |-> "none"], Low |-> Fin(100), Close |-> Fin(100),
       Volume |-> Fin(30)] }

\* The frames yf.download may return for [start, yf_end): None, an empty
\* frame, or up to MaxDfRows daily records of the requested range.
DfRow(d, rec) == [idx |-> d, record |-> rec]

Frames(start, yf_end) ==
    LET days == {d \in Dates : start <= d /\ d < yf_end}
        one == {DfRow(d, rec) : d \in days, rec \in DfRecords}
    IN  UNION {[1..n -> one] : n \in 0..MaxDfRows}

\* The conversions with a cell that does not convert read as 0.
ParseYfRecordLenient(record) ==
    LET val(f) == IF f.kind = "fin" THEN f.v ELSE 0
        vol == VolumeOfCell(record.Volume)
    IN  [kind |-> "ok", open_p |-> val(record.Open), high_p |-> val(record.High),
         low_p |-> val(record.Low), close_p |-> val(record.Close),
         vol |-> IF vol.kind = "int" THEN vol.v ELSE 0]

\* Lines 137-144: the conversions of one record in order.
ParseYfRecord(record) ==
    LET open_p == FloatOfCell(record.Open)
        high_p == FloatOfCell(record.High)
        low_p == FloatOfCell(record.Low)
        close_p == FloatOfCell(record.Close)
        vol == VolumeOfCell(record.Volume)
    IN  CASE open_p.kind = "exc" -> open_p
          [] high_p.kind = "exc" -> high_p
          [] low_p.kind = "exc" -> low_p
          [] close_p.kind = "exc" -> close_p
          [] vol.kind = "exc" -> vol
          [] OTHER -> [kind |-> "ok", open_p |-> open_p.v, high_p |-> high_p.v,
                       low_p |-> low_p.v, close_p |-> close_p.v, vol |-> vol.v]

\* Lines 96-113: parse the dates, compute the exclusive end, read the universe.
RunYfinanceBegin(start_date, end_date) ==
    /\ NewRequest
    /\ bhav' = NoFrame
    /\ fc' = NoFrame
    /\ tx' = db
    /\ UNCHANGED <<db, auto_inc>>
    /\ LET start == DateFromIso(start_date)
           end == DateFromIso(end_date)
       IN  IF start.kind = "exc" \/ end.kind = "exc"
           THEN \* return at line 102: the connection is not closed
                /\ yf' = [handler |-> "run_yfinance_import",
                          msg_list |-> <<"Invalid date format. Use YYYY-MM-DD.">>]
                /\ resp' = "import_log"
                /\ pc' = "idle"
           ELSE IF end.d = MaxDate
           THEN \* end + timedelta(days=1) is out of range for date.max
                /\ yf' = [handler |-> "run_yfinance_import", exc |-> Some("OverflowError")]
                /\ resp' = "exception"
                /\ pc' = "idle"
           ELSE \/ /\ yf' = [handler |-> "run_yfinance_import", start |-> start.d,
                            yf_end |-> end.d + 1, universe_rows |-> FetchUniverseYfinance,
                            i |-> 0, df |-> <<>>, count |-> 0,
                            msg_list |-> <<>>, exc |-> Null, fetched |-> <<>>]
                   /\ resp' = "none"
                   /\ pc' = "yf_loop"
                \/ \* _fetch_universe_yfinance raises: no try around it
                   /\ yf' = [handler |-> "run_yfinance_import", exc |-> Some(StorageFault)]
                   /\ resp' = "exception"
                   /\ pc' = "idle"

\* Lines 115-135: the next instrument and its download. outcome is "raise"
\* (yf.download raised), "none" (it returned None) or "frame" (it returned df).
\* yf.fetched is history: what each download gave.
RunYfinanceDownload(outcome, df) ==
    /\ pc = "yf_loop"
    /\ yf.i < Len(yf.universe_rows)
    /\ LET ticker == yf.universe_rows[yf.i + 1].yfinance_ticker
           next == [yf EXCEPT !.i = @ + 1, !.df = <<>>, !.count = 0,
                              !.fetched = Append(@, [outcome |-> outcome, df |-> df])]
       IN  CASE outcome = "raise" ->
                    /\ df = <<>>
                    /\ yf' = [next EXCEPT !.msg_list =
                                Append(@, <<ticker, "ERROR fetching data">>)]
                    /\ pc' = "yf_loop"
             [] outcome = "none" ->
                    /\ df = <<>>
                    /\ yf' = [next EXCEPT !.msg_list =
                                Append(@, <<ticker, "no data returned.">>)]
                    /\ pc' = "yf_loop"
             [] outcome = "frame" ->
                    IF df = <<>>
                    THEN /\ yf' = [next EXCEPT !.msg_list =
                                    Append(@, <<ticker, "no data returned.">>)]
                         /\ pc' = "yf_loop"
                    ELSE /\ yf' = [next EXCEPT !.df = df]
                         /\ pc' = "yf_rows"
    /\ UNCHANGED <<db, tx, auto_inc, conn, nreq, bhav, fc, resp, consumed, rowFaults, upserts, before, eng>>

\* Lines 136-161: one iteration of the record loop (yf.df holds the records
\* df.iterrows() has yet to yield); after the last record of the frame the
\* summary message of line 161 is appended.
RunYfinanceRow(storeOk) ==
    /\ pc = "yf_rows"
    /\ LET row == yf.universe_rows[yf.i]
           rec == Head(yf.df)
           p == ParseYfRecord(rec.record)
           last == (Len(yf.df) = 1)
           pos == Len(yf.fetched[yf.i].df) - Len(yf.df) + 1
           done(f) == IF last
                      THEN [f EXCEPT !.msg_list = Append(@,
                                <<row.yfinance_ticker, "imported/updated rows", f.count>>)]
                      ELSE f
           step == [yf EXCEPT !.df = Tail(@)]
       IN  /\ pc' = IF last THEN "yf_loop" ELSE "yf_rows"
           /\ IF p.kind = "exc"
              THEN /\ storeOk
                   /\ yf' = done([step EXCEPT !.msg_list =
                                Append(@, <<row.yfinance_ticker, "error on row", rec.idx, p.exc>>)])
                   /\ UNCHANGED <<tx, upserts, rowFaults>>
              ELSE LET bar == Bar(row.id, rec.idx, p.open_p, p.high_p, p.low_p,
                                  p.close_p, p.vol, "YFINANCE")
                   IN  IF storeOk
                       THEN /\ tx' = [tx EXCEPT !.price_history = InsertOrUpdatePrice(@, bar)]
                            /\ upserts' = Append(upserts, bar)
                            /\ yf' = done([step EXCEPT !.count = @ + 1])
                            /\ UNCHANGED rowFaults
                       ELSE /\ yf' = done([step EXCEPT !.msg_list = Append(@,
                                    <<row.yfinance_ticker, "error on row", rec.idx, StorageFault>>)])
                            /\ rowFaults' = rowFaults \cup {<<yf.i, pos>>}
                            /\ UNCHANGED <<tx, upserts>>
    /\ UNCHANGED <<db, auto_inc, conn, nreq, bhav, fc, resp, consumed, before, eng>>

\* Lines 163-172: all instruments done; commit, close, respond.
RunYfinanceCommit ==
    /\ pc = "yf_loop"
    /\ yf.i = Len(yf.universe_rows)
    /\ db' = tx
    /\ conn' = "closed"
    /\ resp' = "import_log"
    /\ pc' = "idle"
    /\ UNCHANGED <<tx, auto_inc, nreq, bhav, fc, yf, consumed, rowFaults, upserts, before, eng>>

RunYfinanceImport ==
    \/ \E start_date \in DateStrings, end_date \in DateStrings :
            RunYfinanceBegin(start_date, end_date)
    \/ /\ pc = "yf_loop"
       /\ \E outcome \in {"raise", "none", "frame"} :
            \E df \in Frames(yf.start, yf.yf_end) : RunYfinanceDownload(outcome, df)
    \/ \E storeOk \in BOOLEAN : RunYfinanceRow(storeOk)
    \/ RunYfinanceCommit

\* -------------------------------------------------------- forecast engine
\* Numbers of the engine are exact rationals <<n, d>> with d > 0 in lowest
\* terms (Python computes the same formulas in binary floating point).
RECURSIVE Gcd(_, _)
Gcd(a, b) == IF b = 0 THEN a ELSE Gcd(b, a % b)

Abs(x) == IF x < 0 THEN -x ELSE x

Rat(n, d) ==
    LET g == Gcd(Abs(n), Abs(d))
        sgn == IF d < 0 THEN -1 ELSE 1
    IN  <<(sgn * n) \div g, (sgn * d) \div g>>

RZero == <<0, 1>>
ROne == <<1, 1>>
RAdd(x, y) == Rat(x[1] * y[2] + y[1] * x[2], x[2] * y[2])
RSub(x, y) == Rat(x[1] * y[2] - y[1] * x[2], x[2] * y[2])
RMul(x, y) == Rat(x[1] * y[1], x[2] * y[2])
RDiv(x, y) == Rat(x[1] * y[2], x[2] * y[1])
RNeg(x) == <<-x[1], x[2]>>
RAbs(x) == <<Abs(x[1]), x[2]>>
RLt(x, y) == x[1] * y[2] < y[1] * x[2]
RLe(x, y) == x[1] * y[2] <= y[1] * x[2]
RMin(x, y) == IF RLe(x, y) THEN x ELSE y

RECURSIVE RSum(_)
RSum(xs) == IF xs = <<>> THEN RZero ELSE RAdd(xs[1], RSum(Tail(xs)))

\* xs[-n:] of a sequence with at least n elements.
LastN(xs, n) == SubSeq(xs, Len(xs) - n + 1, Len(xs))

Min(a, b) == IF a <= b THEN a ELSE b

\* float(r["close"]): stored prices are tenths.
CloseOf(r) == Rat(r.close, 10)

Lcm(a, b) == (a \div Gcd(a, b)) * b

RECURSIVE LcmOfDenominators(_)
LcmOfDenominators(xs) ==
    IF xs = <<>> THEN 1 ELSE Lcm(xs[1][2], LcmOfDenominators(Tail(xs)))

RECURSIVE IntSum(_)
IntSum(ns) == IF ns = <<>> THEN 0 ELSE ns[1] + IntSum(Tail(ns))

\* Lines 111-118: var = sum((r - mean_r) ** 2 for r in last_rets) / (vol_n - 1)
\* if vol_n > 1, and vol = var ** 0.5; else vol = 0.0. The deviations
\* r - mean_r are brought to their common denominator scale, and the
\* variance is kept as the record [ss, scale, dof] that stands for
\* ss / (scale * scale * dof); the volatility is its square root.
SampleVariance(returns, vol_n) ==
    IF vol_n > 1
    THEN LET last_rets == LastN(returns, vol_n)
             mean_r == RDiv(RSum(last_rets), <<vol_n, 1>>)
             devs == [k \in 1..vol_n |-> RSub(last_rets[k], mean_r)]
             scale == LcmOfDenominators(devs)
             m == [k \in 1..vol_n |-> devs[k][1] * (scale \div devs[k][2])]
         IN  [ss |-> IntSum([k \in 1..vol_n |-> m[k] * m[k]]),
              scale |-> scale, dof |-> vol_n - 1]
    ELSE [ss |-> 0, scale |-> 1, dof |-> 1]

\* vol > 0
VolPositive(var) == var.ss > 0

\* The rules with the cap min(.., 0.01) left out.
ClassifyTrendUncapped(trend, drift) ==
    IF RLt(RZero, trend) /\ RLt(RZero, drift)
    THEN [forecast_return |-> RMul(drift, <<6, 5>>), trend_flag |-> "UP"]
    ELSE IF RLt(trend, RZero) /\ RLt(drift, RZero)
    THEN [forecast_return |-> RNeg(RMul(RAbs(drift), <<6, 5>>)), trend_flag |-> "DOWN"]
    ELSE [forecast_return |-> RZero, trend_flag |-> "FLAT"]

\* The rules deciding on the drift alone, without the moving-average signal.
ClassifyTrendByDrift(trend, drift) ==
    IF RLt(RZero, drift)
    THEN [forecast_return |-> RMin(RMul(drift, <<6, 5>>), <<1, 100>>), trend_flag |-> "UP"]
    ELSE IF RLt(drift, RZero)
    THEN [forecast_return |-> RNeg(RMin(RMul(RAbs(drift), <<6, 5>>), <<1, 100>>)),
          trend_flag |-> "DOWN"]
    ELSE [forecast_return |-> RZero, trend_flag |-> "FLAT"]

\* Lines 122-131: the rules (1.2 is 6/5, 0.01 is 1/100).
ClassifyTrend(trend, drift) ==
    IF RLt(RZero, trend) /\ RLt(RZero, drift)
    THEN [forecast_return |-> RMin(RMul(drift, <<6, 5>>), <<1, 100>>), trend_flag |-> "UP"]
    ELSE IF RLt(trend, RZero) /\ RLt(drift, RZero)
    THEN [forecast_return |-> RNeg(RMin(RMul(RAbs(drift), <<6, 5>>), <<1, 100>>)),
          trend_flag |-> "DOWN"]
    ELSE [forecast_return |-> RZero, trend_flag |-> "FLAT"]

\* Lines 84-152: the forecast from five bars or more. A band price
\* a + b * vol is kept as the pair [a, b].
GeneralForecast(rows) ==
    LET n == Len(rows)
        closes == [i \in 1..n |-> CloseOf(rows[i])]
        returns == [i \in 1..(n - 1) |->
                        IF closes[i] # RZero
                            THEN RDiv(RSub(closes[i + 1], closes[i]), closes[i])
                            ELSE RZero]
        last_close == closes[n]
        as_of_date == rows[n].trade_date
        short_n == Min(5, n)
        long_n == Min(20, n)
        drift_n == Min(10, Len(returns))
        vol_n == Min(20, Len(returns))
        ma_short == RDiv(RSum(LastN(closes, short_n)), <<short_n, 1>>)
        ma_long == RDiv(RSum(LastN(closes, long_n)), <<long_n, 1>>)
        drift == IF drift_n > 0
                    THEN RDiv(RSum(LastN(returns, drift_n)), <<drift_n, 1>>)
                    ELSE RZero
        var == SampleVariance(returns, vol_n)
        trend == RSub(ma_short, ma_long)
        rule == ClassifyTrend(trend, drift)
        forecast_price == RMul(last_close, RAdd(ROne, rule.forecast_return))
        band == IF VolPositive(var) THEN forecast_price ELSE RZero
    IN  IF as_of_date = MaxDate
        THEN [kind |-> "exc", exc |-> "OverflowError"]
        ELSE [kind |-> "ok",
              as_of_date |-> as_of_date,
              next_date |-> as_of_date + 1,
              last_close |-> last_close,
              forecast_return |-> rule.forecast_return,
              forecast_price |-> forecast_price,
              lower_price |-> [a |-> forecast_price, b |-> RNeg(band)],
              upper_price |-> [a |-> forecast_price, b |-> band],
              trend_flag |-> rule.trend_flag,
              details |-> [ma_short |-> ma_short, ma_long |-> ma_long, drift |-> drift,
                           volatility |-> var]]

\* The engine without its short-series case: every series goes through the
\* moving averages.
ComputeForecastAlwaysGeneral(rows) ==
    IF rows = <<>>
    THEN [kind |-> "exc", exc |-> "IndexError"]
    ELSE GeneralForecast(rows)

\* Lines 57-152. rows[-1] of an empty list raises IndexError; the day after
\* date.max is out of range and raises OverflowError.
ComputeForecastFromPrices(rows) ==
    IF Len(rows) < 5
    THEN IF rows = <<>>
         THEN [kind |-> "exc", exc |-> "IndexError"]
         ELSE LET last == rows[Len(rows)]
                  last_close == CloseOf(last)
                  as_of == last.trade_date
              IN  IF as_of = MaxDate
                  THEN [kind |-> "exc", exc |-> "OverflowError"]
                  ELSE [kind |-> "ok",
                        as_of_date |-> as_of,
                        next_date |-> as_of + 1,
                        last_close |-> last_close,
                        forecast_return |-> RZero,
                        forecast_price |-> last_close,
                        lower_price |-> [a |-> last_close, b |-> RZero],
                        upper_price |-> [a |-> last_close, b |-> RZero],
                        trend_flag |-> "FLAT",
                        details |-> <<>>]
    ELSE GeneralForecast(rows)

\* -------------------------------------------------- the engine on its own
\* Closes (in tenths) of the series the engine is tried on: closes are not
\* validated anywhere, so negative and zero ones are among them.
EngineCloses == {-50, 0, 100, 200}

\* The five-bar series 10, 10.5, 11, 11.2, 11.5, and two six-bar series
\* with one small move at the end.
ScenarioCloses == <<100, 105, 110, 112, 115>>
SlowRiseCloses == <<1000, 1000, 1000, 1000, 1000, 1010>>
SlowFallCloses == <<1010, 1010, 1010, 1010, 1010, 1000>>

\* Rows as _fetch_recent_prices returns them: consecutive days, oldest first,
\* the last of them dated last_date.
SeriesOf(closes, last_date) ==
    [i \in 1..Len(closes) |->
        [trade_date |-> last_date - Len(closes) + i, close |-> closes[i], volume |-> 0]]

EngineInputs ==
    LET closes == UNION {[1..n -> EngineCloses] : n \in 0..MaxBars}
                    \cup {ScenarioCloses, SlowRiseCloses, SlowFallCloses}
    IN  {SeriesOf(c, last_date) : c \in closes, last_date \in {MaxDate - 1, MaxDate}}

EngineInit ==
    /\ db = EmptyTables
    /\ tx = EmptyTables
    /\ auto_inc = [bhav_upload |-> 0, forecast_run |-> 0]
    /\ conn = "none"
    /\ pc = "idle"
    /\ nreq = 0
    /\ bhav = NoFrame
    /\ fc = NoFrame
    /\ yf = NoFrame
    /\ resp = "none"
    /\ consumed = <<>>
    /\ rowFaults = {}
    /\ upserts = <<>>
    /\ before = EmptyTables
    /\ \E rows \in EngineInputs :
            eng = [handler |-> "engine", rows |-> rows, result |-> Null]

\* forecast = _compute_forecast_from_prices(rows)
EngineCompute ==
    /\ eng.handler = "engine"
    /\ eng.result = Null
    /\ eng' = [eng EXCEPT !.result = Some(ComputeForecastFromPrices(eng.rows))]
    /\ UNCHANGED <<db, tx, auto_inc, conn, pc, nreq, bhav, fc, yf, resp, consumed,
                   rowFaults, upserts, before>>

EngineNext == EngineCompute

EngineSpec == EngineInit /\ [][EngineNext]_vars

\* ----------------------------------------------------- forecast orchestrator
\* SELECT ... FROM universe WHERE is_active = 1 ORDER BY e.code, u.symbol
FetchActiveUniverse == SelectSeq(Universe, LAMBDA u : u.is_active)

RECURSIVE AscendingByDate(_)
AscendingByDate(S) ==
    IF S = {} THEN <<>>
    ELSE LET r == CHOOSE x \in S : \A y \in S : x.trade_date <= y.trade_date
         IN  <<r>> \o AscendingByDate(S \ {r})

\* The query without its WHERE universe_id = %s condition.
FetchRecentPricesAnyInstrument(tables, universe_id, limit_days) ==
    LET all == AscendingByDate(tables.price_history)
        kept == LastN(all, Min(limit_days, Len(all)))
    IN  [i \in 1..Len(kept) |->
            [trade_date |-> kept[i].trade_date, close |-> kept[i].close,
             volume |-> kept[i].volume]]

\* The query without the rows.reverse() that follows it: newest bar first.
FetchRecentPricesNewestFirst(tables, universe_id, limit_days) ==
    LET all == AscendingByDate({r \in tables.price_history : r.universe_id = universe_id})
        kept == LastN(all, Min(limit_days, Len(all)))
    IN  [i \in 1..Len(kept) |->
            [trade_date |-> kept[Len(kept) - i + 1].trade_date,
             close |-> kept[Len(kept) - i + 1].close,
             volume |-> kept[Len(kept) - i + 1].volume]]

\* SELECT trade_date, close, volume ... ORDER BY trade_date DESC LIMIT
\* limit_days, then reversed: the most recent bars, oldest first.
FetchRecentPrices(tables, universe_id, limit_days) ==
    LET all == AscendingByDate({r \in tables.price_history : r.universe_id = universe_id})
        kept == LastN(all, Min(limit_days, Len(all)))
    IN  [i \in 1..Len(kept) |->
            [trade_date |-> kept[i].trade_date, close |-> kept[i].close,
             volume |-> kept[i].volume]]

\* INSERT INTO forecast_run (run_time, description, status) VALUES (.., .., 'SUCCESS')
CreateForecastRun(tables, id, description) ==
    [tables EXCEPT !.forecast_run = @ \cup
        {[id |-> id, description |-> description, status |-> "SUCCESS",
          error_message |-> Null]}]

\* UPDATE forecast_run SET status, error_message WHERE id
UpdateForecastRunStatus(tables, run_id, status, error_message) ==
    [tables EXCEPT !.forecast_run =
        {IF r.id = run_id
            THEN [r EXCEPT !.status = status, !.error_message = error_message]
            ELSE r : r \in @}]

\* INSERT INTO forecast_result (...): details_json is always NULL.
InsertForecastResult(tables, run_id, universe_id, forecast) ==
    [tables EXCEPT !.forecast_result = @ \cup
        {[forecast_run_id |-> run_id, universe_id |-> universe_id,
          as_of_date |-> forecast.as_of_date, next_date |-> forecast.next_date,
          last_close |-> forecast.last_close,
          forecast_return |-> forecast.forecast_return,
          forecast_price |-> forecast.forecast_price,
          lower_price |-> forecast.lower_price, upper_price |-> forecast.upper_price,
          trend_flag |-> forecast.trend_flag]}]

\* Lines 301-305: create the run row, read the active universe.
\* createOk / universeOk say whether the store executes the statement.
RunForecastBegin(createOk, universeOk) ==
    /\ NewRequest
    /\ bhav' = NoFrame
    /\ yf' = NoFrame
    /\ resp' = "none"
    /\ UNCHANGED db
    /\ LET frame == [handler |-> "run_forecast", run_id |-> Null, universe_rows |-> <<>>,
                     i |-> 0, engine_calls |-> <<>>, exc |-> Null]
           id == auto_inc.forecast_run + 1
       IN  IF ~createOk
           THEN /\ universeOk
                /\ tx' = db
                /\ fc' = [frame EXCEPT !.exc = Some(StorageFault)]
                /\ pc' = "fc_except"
                /\ UNCHANGED auto_inc
           ELSE /\ tx' = CreateForecastRun(db, id, Null)
                /\ auto_inc' = [auto_inc EXCEPT !.forecast_run = id]
                /\ IF universeOk
                   THEN /\ fc' = [frame EXCEPT !.run_id = Some(id),
                                               !.universe_rows = FetchActiveUniverse]
                        /\ pc' = "fc_loop"
                   ELSE /\ fc' = [frame EXCEPT !.run_id = Some(id),
                                               !.exc = Some(StorageFault)]
                        /\ pc' = "fc_except"

\* Lines 307-314: one iteration of the instrument loop. pricesOk / insertOk
\* say whether the store executes the read and the insert.
RunForecastInstrument(pricesOk, insertOk) ==
    /\ pc = "fc_loop"
    /\ fc.i < Len(fc.universe_rows)
    /\ LET row == fc.universe_rows[fc.i + 1]
           prices == FetchRecentPrices(tx, row.id, LimitDays)
           forecast == ComputeForecastFromPrices(prices)
           next == [fc EXCEPT !.i = @ + 1]
           called == [next EXCEPT !.engine_calls = Append(@, Len(prices))]
       IN  IF ~pricesOk
           THEN /\ insertOk
                /\ fc' = [next EXCEPT !.exc = Some(StorageFault)]
                /\ pc' = "fc_except"
                /\ UNCHANGED tx
           ELSE IF prices = <<>>
           THEN \* no data, skip
                /\ insertOk
                /\ fc' = next
                /\ pc' = "fc_loop"
                /\ UNCHANGED tx
           ELSE IF forecast.kind = "exc"
           THEN /\ insertOk
                /\ fc' = [called EXCEPT !.exc = Some(forecast.exc)]
                /\ pc' = "fc_except"
                /\ UNCHANGED tx
           ELSE IF ~insertOk
           THEN /\ fc' = [called EXCEPT !.exc = Some(StorageFault)]
                /\ pc' = "fc_except"
                /\ UNCHANGED tx
           ELSE /\ tx' = InsertForecastResult(tx, fc.run_id[1], row.id, forecast)
                /\ fc' = called
                /\ pc' = "fc_loop"
    /\ UNCHANGED <<db, auto_inc, conn, nreq, bhav, yf, resp, consumed, rowFaults, upserts, before, eng>>

\* Lines 316, 322-325: the loop is over; commit, close, redirect.
RunForecastCommit ==
    /\ pc = "fc_loop"
    /\ fc.i = Len(fc.universe_rows)
    /\ db' = tx
    /\ conn' = "closed"
    /\ resp' = "redirect"
    /\ pc' = "idle"
    /\ UNCHANGED <<tx, auto_inc, nreq, bhav, fc, yf, consumed, rowFaults, upserts, before, eng>>

\* A handler that records the error text but leaves the status as created.
FailedRunTablesKeepStatus(tables, run_id, error_message) ==
    UpdateForecastRunStatus(tables, run_id, "SUCCESS", error_message)

\* A handler that rolls the run's results back before it marks the run.
FailedRunTablesDropResults(tables, run_id, error_message) ==
    UpdateForecastRunStatus(
        [tables EXCEPT !.forecast_result = {r \in @ : r.forecast_run_id # run_id}],
        run_id, "FAILED", error_message)

\* The handler's write of line 319: mark the run FAILED with the error text.
FailedRunTables(tables, run_id, error_message) ==
    UpdateForecastRunStatus(tables, run_id, "FAILED", error_message)

\* Lines 317-323: if the run row exists mark it FAILED and commit; re-raise;
\* the finally clause closes the connection.
RunForecastExcept ==
    /\ pc = "fc_except"
    /\ IF fc.run_id # Null
       THEN /\ tx' = FailedRunTables(tx, fc.run_id[1], fc.exc)
            /\ db' = tx'
       ELSE UNCHANGED <<db, tx>>
    /\ conn' = "closed"
    /\ resp' = "exception"
    /\ pc' = "idle"
    /\ UNCHANGED <<auto_inc, nreq, bhav, fc, yf, consumed, rowFaults, upserts, before, eng>>

RunForecast ==
    \/ \E createOk \in BOOLEAN, universeOk \in BOOLEAN : RunForecastBegin(createOk, universeOk)
    \/ \E pricesOk \in BOOLEAN, insertOk \in BOOLEAN : RunForecastInstrument(pricesOk, insertOk)
    \/ RunForecastCommit
    \/ RunForecastExcept

Next ==
    \/ UploadBhavFile
    \/ RunYfinanceImport
    \/ RunForecast

Spec == Init /\ [][Next]_vars

\* ------------------------------------------- forecast runs over stored bars
\* A bar as an earlier import left it; the close alternates with the day.
StoredBar(universe_id, d) ==
    LET c == IF d % 2 = 0 THEN 100 ELSE 200
    IN  Bar(universe_id, d, c, c, c, c, 0, "BSE_BHAV")

\* The price stores the runs start from: instrument 1 has bars on any set
\* of days, instrument 2 none, one, or two.
ForecastStores ==
    {{StoredBar(1, d) : d \in D1} \cup {StoredBar(2, d) : d \in D2} :
        D1 \in SUBSET Dates, D2 \in {{}, {1}, {1, 2}}}

ForecastInit ==
    /\ \E store \in ForecastStores :
            /\ db = [EmptyTables EXCEPT !.price_history = store]
            /\ tx = db
    /\ auto_inc = [bhav_upload |-> 0, forecast_run |-> 0]
    /\ conn = "none"
    /\ pc = "idle"
    /\ nreq = 0
    /\ bhav = NoFrame
    /\ fc = NoFrame
    /\ yf = NoFrame
    /\ resp = "none"
    /\ consumed = <<>>
    /\ rowFaults = {}
    /\ upserts = <<>>
    /\ before = db
    /\ eng = NoFrame

ForecastNext == RunForecast

ForecastSpec == ForecastInit /\ [][ForecastNext]_vars

\* ================================================================ properties
UploadFrame == bhav.handler = "upload_bhav_file"
YfinanceFrame == yf.handler = "run_yfinance_import"
ForecastFrame == fc.handler = "run_forecast"

\* The upload got past the date check and created its upload row.
UploadStarted == UploadFrame /\ "upload_id" \in DOMAIN bhav

\* The commit that follows the upserts of the current connection was done.
UpsertsCommitted ==
    \/ UploadStarted /\ pc \in {"bhav_update", "idle"} /\ bhav.status = Some("SUCCESS")
    \/ YfinanceFrame /\ pc = "idle" /\ conn = "closed"

KeyOf(r) == <<r.universe_id, r.trade_date>>

\* The last bar upserted for key k through the current connection.
LastUpsert(k) ==
    upserts[CHOOSE i \in DOMAIN upserts :
                /\ KeyOf(upserts[i]) = k
                /\ \A j \in DOMAIN upserts : KeyOf(upserts[j]) = k => j <= i]

UpsertedKeys == {KeyOf(upserts[i]) : i \in DOMAIN upserts}

\* C1: after the upserts of a connection (either source) and its commit the
\* price store holds exactly one bar per upserted key, carrying the open,
\* high, low, close, volume and source of the most recent upsert of that
\* key; bars of other keys are as before; and upserting the most recent bar
\* once more would leave the store as it is (idempotence).
C1_LastWriteWins ==
    /\ \A r1 \in db.price_history, r2 \in db.price_history :
            KeyOf(r1) = KeyOf(r2) => r1 = r2
    /\ UpsertsCommitted =>
        /\ \A k \in UpsertedKeys :
                {r \in db.price_history : KeyOf(r) = k} = {LastUpsert(k)}
        /\ \A r \in db.price_history :
                KeyOf(r) \notin UpsertedKeys => r \in before.price_history
        /\ \A r \in before.price_history :
                KeyOf(r) \notin UpsertedKeys => r \in db.price_history
        /\ \A i \in DOMAIN upserts :
                LET once == InsertOrUpdatePrice(before.price_history, upserts[i])
                IN  InsertOrUpdatePrice(once, upserts[i]) = once

\* C1 witness: a committed connection that upserted one key twice with
\* different values, over a bar that another source had stored before.
C1_Witness ==
    /\ UpsertsCommitted
    /\ \E i \in DOMAIN upserts, j \in DOMAIN upserts :
            /\ i < j
            /\ KeyOf(upserts[i]) = KeyOf(upserts[j])
            /\ upserts[i] # upserts[j]
            /\ \E r \in before.price_history :
                    KeyOf(r) = KeyOf(upserts[j]) /\ r.source # upserts[j].source

\* C2: no bar with a negative volume is ever stored: an upsert with a
\* negative volume is rejected and leaves the price store unchanged.
C2_NoNegativeVolumeStored ==
    \A r \in db.price_history : r.volume >= 0

\* C3: once an upload with a valid trade date has closed its connection,
\* the committed bhav_upload table holds exactly one row of that upload,
\* with status SUCCESS or FAILED and the counts the handler accumulated.
C3_UploadBatchPersisted ==
    (UploadStarted /\ pc = "idle" /\ conn = "closed") =>
        LET mine == {r \in db.bhav_upload : r.id = bhav.upload_id}
        IN  /\ Cardinality(mine) = 1
            /\ \A r \in mine :
                    /\ r.status \in {"SUCCESS", "FAILED"}
                    /\ r.status = bhav.status[1]
                    /\ r.records_total = Some(bhav.total)
                    /\ r.records_loaded = Some(bhav.loaded)

\* What the file says, independently of the handler: a row is tracked when
\* its code, stripped, is the code of an active instrument; it is malformed
\* when one of its numeric cells is not a finite number.
Tracked(row) ==
    /\ Strip(row.FinInstrmId) # ""
    /\ \E i \in DOMAIN Universe :
            /\ Universe[i].is_active
            /\ Strip(Universe[i].bse_code) = Strip(row.FinInstrmId)

NumericCells == {"", "0", "10", "10.5", "12", "7.9", "-5"}

Malformed(row) ==
    \E cell \in {row.OpnPric, row.HghPric, row.LwPric, row.ClsPric, row.TtlTradgVol} :
        cell \notin NumericCells

InstrumentOf(row) ==
    Universe[CHOOSE i \in DOMAIN Universe :
                Strip(Universe[i].bse_code) = Strip(row.FinInstrmId)].id

RowsWhere(P(_)) == {i \in DOMAIN consumed : P(i)}

IsMalformedRow(i) == Tracked(consumed[i]) /\ Malformed(consumed[i])
IsValidRow(i) == Tracked(consumed[i]) /\ ~Malformed(consumed[i])
IsUpsertedRow(i) == IsValidRow(i) /\ i \notin rowFaults

\* The whole file was read without an adapter-level exception.
FileConsumed == UploadStarted /\ pc \in {"bhav_update", "idle"} /\ bhav.exc = Null

\* C4: row isolation. When the file has been read to its end, total is the
\* number of rows of the file, loaded the number of tracked rows that
\* parsed and were upserted, the row-error messages are, in file order, one
\* per malformed tracked row (and one per row the store refused), the bars
\* of the upserted rows are stored, and the status is SUCCESS.
C4_RowIsolation ==
    FileConsumed =>
        /\ bhav.total = Len(consumed)
        /\ bhav.loaded = Cardinality(RowsWhere(IsUpsertedRow))
        /\ bhav.status = Some("SUCCESS")
        /\ LET errs == SelectSeq(bhav.messages, LAMBDA m : m[1] = "Row error")
               bad == SelectSeq([i \in DOMAIN consumed |-> i],
                                LAMBDA i : IsMalformedRow(i) \/ i \in rowFaults)
           IN  /\ Len(errs) = Len(bad)
               /\ \A k \in DOMAIN errs : errs[k][2] = consumed[bad[k]].FinInstrmId
        /\ \A i \in RowsWhere(IsUpsertedRow) :
                \E r \in db.price_history :
                    /\ KeyOf(r) = <<InstrumentOf(consumed[i]), bhav.tdate>>
                    /\ r.source = "BSE_BHAV"

\* C4 witness: a file of a valid and a malformed tracked row, read to its end.
C4_Witness ==
    /\ FileConsumed
    /\ pc = "idle"
    /\ Len(consumed) >= 2
    /\ RowsWhere(IsMalformedRow) # {}
    /\ bhav.loaded >= 1

\* C5: a row whose code does not resolve to an active instrument is counted
\* in total, not in loaded, upserts nothing, records no message, and leaves
\* the loop ready for the next row.
C5_UnresolvedRowSkipped ==
    [][(/\ pc = "bhav_loop"
        /\ Len(consumed') = Len(consumed) + 1
        /\ ~Tracked(consumed'[Len(consumed')]))
       => (/\ bhav'.total = bhav.total + 1
           /\ bhav'.loaded = bhav.loaded
           /\ bhav'.messages = bhav.messages
           /\ tx' = tx
           /\ upserts' = upserts
           /\ pc' = "bhav_loop")]_vars

\* C5 witness: an untracked row was read, and a later row was loaded.
C5_Witness ==
    /\ UploadStarted
    /\ \E i \in DOMAIN consumed, j \in DOMAIN consumed :
            /\ i < j
            /\ ~Tracked(consumed[i])
            /\ consumed[i].FinInstrmId # ""
            /\ IsUpsertedRow(j)
    /\ bhav.loaded = 1
    /\ bhav.total = 2
    /\ bhav.messages = <<>>

\* C6: a storage fault on the upsert of a row is no row-level failure: it
\* aborts the upload at that row (no later row is read) and the batch ends
\* FAILED with the fault text as its error message.
C6_StorageFaultAbortsUpload ==
    (UploadStarted /\ pc = "idle" /\ rowFaults # {}) =>
        /\ bhav.status = Some("FAILED")
        /\ bhav.error_msg = Some(StorageFault)
        /\ \A i \in rowFaults : Len(consumed) = i

RunFinished == ForecastFrame /\ pc = "idle"

ActiveIds == {Universe[i].id : i \in {j \in DOMAIN Universe : Universe[j].is_active}}

\* The instrument had stored bars when the request began.
HasBars(universe_id) == \E r \in before.price_history : r.universe_id = universe_id

ResultsOf(tables, run_id) == {r \in tables.forecast_result : r.forecast_run_id = run_id}

\* The run left exactly the row r in the committed forecast_run table, with
\* SUCCESS if no exception occurred and FAILED with its text otherwise.
LeftRunRow(r) ==
    /\ r \notin before.forecast_run
    /\ db.forecast_run = before.forecast_run \cup {r}
    /\ IF fc.exc = Null
          THEN r.status = "SUCCESS" /\ r.error_message = Null
          ELSE r.status = "FAILED" /\ r.error_message = fc.exc

C8_PartialResultsRetained ==
    (RunFinished /\ fc.exc # Null /\ fc.i >= 1) =>
        LET k == fc.i
            res == ResultsOf(db, fc.run_id[1])
        IN  /\ \E r \in db.forecast_run : r.id = fc.run_id[1] /\ r.status = "FAILED"
            /\ Len(fc.engine_calls) <= k
            /\ \A r \in res : \E j \in 1..(k - 1) : fc.universe_rows[j].id = r.universe_id
            /\ \A j \in 1..(k - 1) :
                    HasBars(fc.universe_rows[j].id) =>
                        Cardinality({r \in res : r.universe_id = fc.universe_rows[j].id}) = 1

\* C8 witness: a run aborted at its second instrument, the result of the
\* first committed under it.
C8_Witness ==
    /\ RunFinished
    /\ fc.exc # Null
    /\ fc.i = 2
    /\ ResultsOf(db, fc.run_id[1]) # {}

\* C9: the engine is never invoked with an empty series; an instrument
\* without bars gets no result; and a run without exception ends SUCCESS
\* with exactly one result for every active instrument that has bars.
C9_ZeroBarInstrumentsSkipped ==
    /\ ForecastFrame => \A c \in DOMAIN fc.engine_calls : fc.engine_calls[c] >= 1
    /\ (ForecastFrame /\ fc.run_id # Null) =>
            \A r \in ResultsOf(tx, fc.run_id[1]) \cup ResultsOf(db, fc.run_id[1]) :
                HasBars(r.universe_id)
    /\ (RunFinished /\ fc.exc = Null) =>
            /\ \E r \in db.forecast_run : r.id = fc.run_id[1] /\ r.status = "SUCCESS"
            /\ \A u \in ActiveIds :
                    Cardinality({r \in ResultsOf(db, fc.run_id[1]) : r.universe_id = u})
                        = IF HasBars(u) THEN 1 ELSE 0

\* C9 witness: a successful run over an instrument with bars and one without.
C9_Witness ==
    /\ RunFinished
    /\ fc.exc = Null
    /\ \E u \in ActiveIds : HasBars(u)
    /\ \E u \in ActiveIds : ~HasBars(u)
    /\ Cardinality(ResultsOf(db, fc.run_id[1])) = 1

\* The engine raises on the bars the instrument had when the request began.
EngineFails(universe_id) ==
    /\ HasBars(universe_id)
    /\ ComputeForecastFromPrices(
            FetchRecentPrices(before, universe_id, LimitDays)).kind = "exc"

EngineCalled == eng.handler = "engine" /\ eng.result # Null
EngineReturned == EngineCalled /\ eng.result[1].kind = "ok"
ClosesOf(rows) == [i \in DOMAIN rows |-> rows[i].close]

\* C11 as stated: on the five-bar series 10, 10.5, 11, 11.2, 11.5 the engine
\* returns UP with forecast_return 0.01 and forecast_price 11.615.
C11_FiveBarScenarioUp ==
    (EngineReturned /\ ClosesOf(eng.rows) = ScenarioCloses) =>
        /\ eng.result[1].trend_flag = "UP"
        /\ eng.result[1].forecast_return = <<1, 100>>
        /\ eng.result[1].forecast_price = <<2323, 200>>

\* C11 as amended: on the five-bar series 10, 10.5, 11, 11.2, 11.5 both
\* moving averages are taken over the same five closes (10.84), the trend
\* signal is 0, and the engine returns FLAT with forecast_return 0 and
\* forecast_price 11.5, although the drift is positive.
C11_FiveBarScenarioFlat ==
    (EngineReturned /\ ClosesOf(eng.rows) = ScenarioCloses) =>
        /\ eng.result[1].details.ma_short = <<271, 25>>
        /\ eng.result[1].details.ma_long = <<271, 25>>
        /\ RLt(RZero, eng.result[1].details.drift)
        /\ eng.result[1].trend_flag = "FLAT"
        /\ eng.result[1].forecast_return = RZero
        /\ eng.result[1].forecast_price = <<23, 2>>

\* C11 witness: the engine has returned on the five-bar series.
C11_Witness ==
    /\ EngineReturned
    /\ ClosesOf(eng.rows) = ScenarioCloses
    /\ eng.result[1].last_close = <<23, 2>>

\* vol > 0 in the returned forecast (the flat forecast has no volatility).
ResultVolPositive(r) == DOMAIN r.details # {} /\ VolPositive(r.details.volatility)

\* x <= y for two band prices a + b * vol around the same base a.
BandLe(x, y, volpos) == x.a = y.a /\ (volpos => RLe(x.b, y.b))

\* C12: whatever the closes, the returned forecast has
\* lower_price <= forecast_price <= upper_price, and the three are equal
\* when the volatility is 0.
C12_BandOrdering ==
    EngineReturned =>
        LET r == eng.result[1]
            price == [a |-> r.forecast_price, b |-> RZero]
            volpos == ResultVolPositive(r)
        IN  /\ BandLe(r.lower_price, price, volpos)
            /\ BandLe(price, r.upper_price, volpos)
            /\ ~volpos => (r.lower_price = price /\ r.upper_price = price)

\* C13: the returned forecast_return is at most 0.01 in absolute value, it
\* is >= 0 when the flag is UP, <= 0 when DOWN and 0 when FLAT.
C13_ReturnCapAndSign ==
    EngineReturned =>
        LET r == eng.result[1]
        IN  /\ RLe(RAbs(r.forecast_return), <<1, 100>>)
            /\ r.trend_flag \in {"UP", "DOWN", "FLAT"}
            /\ r.trend_flag = "UP" => RLe(RZero, r.forecast_return)
            /\ r.trend_flag = "DOWN" => RLe(r.forecast_return, RZero)
            /\ r.trend_flag = "FLAT" => r.forecast_return = RZero

\* C13 witness: an UP forecast whose drift * 1.2 exceeds the cap.
C13_Witness ==
    /\ EngineReturned
    /\ eng.result[1].trend_flag = "UP"
    /\ eng.result[1].forecast_return = <<1, 100>>
    /\ RLt(<<1, 100>>, RMul(eng.result[1].details.drift, <<6, 5>>))

StoredDates(universe_id) ==
    {b.trade_date : b \in {x \in db.price_history : x.universe_id = universe_id}}

Latest(dates) == CHOOSE d \in dates : \A e \in dates : e <= d

\* C15: every result a run writes carries as as_of_date the latest
\* trade_date of the instrument's stored bars (the latest of the at most 60
\* most recent ones) and as next_date the day after it, whether the
\* instrument has fewer than five bars or five and more.
C15_AsOfIsLatestBar ==
    \A r \in tx.forecast_result \cup db.forecast_result :
        /\ StoredDates(r.universe_id) # {}
        /\ r.as_of_date = Latest(StoredDates(r.universe_id))
        /\ r.next_date = r.as_of_date + 1

\* C15 witness: one committed run with a result from six bars and a result
\* from two bars.
C15_Witness ==
    /\ RunFinished
    /\ fc.exc = Null
    /\ \E r1 \in ResultsOf(db, fc.run_id[1]), r2 \in ResultsOf(db, fc.run_id[1]) :
            /\ r1.universe_id = 1
            /\ r2.universe_id = 2
            /\ Cardinality(StoredDates(1)) = 6
            /\ Cardinality(StoredDates(2)) = 2
            /\ r1.as_of_date > r2.as_of_date

\* ----------------------------------------------------- bulk-download adapter
\* The bulk import got past its date checks and read the universe.
YfinanceLooped == YfinanceFrame /\ "universe_rows" \in DOMAIN yf

\* What a download gave, independently of the handler: nothing usable, or
\* a frame whose record j has a cell that is no number.
NoData(f) == f.outcome \in {"raise", "none"} \/ f.df = <<>>

BadRecord(rec) ==
    \E cell \in {rec.Open, rec.High, rec.Low, rec.Close, rec.Volume} : cell.kind = "none"

MessagesOf(ticker, text) ==
    SelectSeq(yf.msg_list, LAMBDA m : m[1] = ticker /\ m[2] = text)

\* C16: a bulk import that got into its instrument loop always ends by
\* committing and responding with its log. Every instrument of the
\* universe was tried. An instrument whose download failed, returned
\* nothing or returned an empty frame left exactly one message. In a
\* returned frame every record was processed: each record with a bad cell
\* (and each the store refused) left one row message, the others are
\* counted in the summary message and their bars are committed.
C16_BulkImportIsolation ==
    (pc = "idle" /\ YfinanceLooped) =>
        /\ conn = "closed"
        /\ resp = "import_log"
        /\ yf.exc = Null
        /\ Len(yf.fetched) = Len(FetchUniverseYfinance)
        /\ \A k \in DOMAIN yf.fetched :
            LET u == FetchUniverseYfinance[k]
                t == u.yfinance_ticker
                f == yf.fetched[k]
                bad == {j \in DOMAIN f.df : BadRecord(f.df[j].record) \/ <<k, j>> \in rowFaults}
                good == DOMAIN f.df \ bad
            IN  IF NoData(f)
                THEN /\ Len(MessagesOf(t, "ERROR fetching data"))
                            = IF f.outcome = "raise" THEN 1 ELSE 0
                     /\ Len(MessagesOf(t, "no data returned."))
                            = IF f.outcome = "raise" THEN 0 ELSE 1
                     /\ MessagesOf(t, "error on row") = <<>>
                     /\ MessagesOf(t, "imported/updated rows") = <<>>
                ELSE /\ Len(MessagesOf(t, "error on row")) = Cardinality(bad)
                     /\ MessagesOf(t, "imported/updated rows")
                            = <<<<t, "imported/updated rows", Cardinality(good)>>>>
                     /\ MessagesOf(t, "ERROR fetching data") = <<>>
                     /\ MessagesOf(t, "no data returned.") = <<>>
                     /\ \A j \in good :
                            \E r \in db.price_history :
                                /\ KeyOf(r) = <<u.id, f.df[j].idx>>
                                /\ r.source = "YFINANCE"

\* C16 witness: a finished import in which the first instrument's frame held
\* a record with a bad cell and the second instrument's bar was committed.
C16_Witness ==
    /\ YfinanceLooped
    /\ pc = "idle"
    /\ Len(yf.fetched) = 2
    /\ ~NoData(yf.fetched[1])
    /\ BadRecord(yf.fetched[1].df[1].record)
    /\ ~NoData(yf.fetched[2])
    /\ ~BadRecord(yf.fetched[2].df[1].record)
    /\ \E r \in db.price_history : r.universe_id = 2 /\ r.source = "YFINANCE"

\* ------------------------------------------------------- failed uploads
\* C17: when an upload ends FAILED on an adapter-level exception, none of
\* the bars upserted from the file are persisted: the committed price store
\* is the one the upload started from.
C17_FailedUploadLeavesPrices ==
    (UploadStarted /\ pc \in {"bhav_update", "idle"} /\ bhav.status = Some("FAILED")) =>
        db.price_history = before.price_history

\* C17 witness: the stream failed after a row was loaded, and the upload has
\* ended FAILED; the loaded bar was not in the store before.
C17_Witness ==
    /\ UploadStarted
    /\ pc = "idle"
    /\ bhav.status = Some("FAILED")
    /\ bhav.exc = Some("UnicodeDecodeError")
    /\ bhav.loaded >= 1
    /\ \E i \in DOMAIN upserts : upserts[i] \notin before.price_history

\* ---------------------------------------------------------- connections
\* C18: whenever a batch handler has ended (by a response or an exception)
\* the connection it was given is closed.
C18_ConnectionReleased ==
    (pc = "idle" /\ nreq > 0) => conn = "closed"

====
